---- MODULE Spec2Model ----
(***************************************************************************)
(* A model of pi.py (ParallelPi): the Leibniz-series evaluator, the two    *)
(* segment partitioners, the five execution backends (GIL threads,         *)
(* producer-consumer threads, producer-consumer processes, process pool,   *)
(* remote hosts over ssh) and the dispatch in main().                      *)
(*                                                                         *)
(* Floats are modelled exactly: a value v stands for the rational v / Den, *)
(* where Den is a common denominator of every series term in range.        *)
(* Optional arguments are sequences: <<>> is None, <<v>> is the value v.   *)
(* Text is a sequence of tokens.                                           *)
(***************************************************************************)
EXTENDS Integers, Sequences, FiniteSets, TLC

\* ------------------------------------------------------------------ bounds

\* Largest iteration count (-i) the model draws.
MaxIter == 3
\* Largest worker count (-t, -p, --pool) the model draws.
MaxWorkers == 2
\* Largest number of hosts in --hosts.
MaxHosts == 2
\* Segment indices 1..FaultSegs are the ones whose evaluation may raise or hang.
FaultSegs == 2
\* Largest iteration count and worker count the partitioners alone are run on.
MaxPartIter == 9
MaxPartWorkers == 5

\* --------------------------------------------------------------- optionals

None == <<>>

Some(v) == <<v>>

Val(o) == o[1]

\* Python truthiness of an optional int: None and 0 are false.
Truthy(o) == o # <<>> /\ o[1] # 0

\* ----------------------------------------------------------- arithmetic

\* Python's a // b for b # 0: the floor of the quotient, whatever the signs.
PyFloorDiv(a, b) == IF b > 0 THEN a \div b ELSE (0 - a) \div (0 - b)

Max(a, b) == IF a >= b THEN a ELSE b

Min(a, b) == IF a <= b THEN a ELSE b

RECURSIVE OddProduct(_)
\* The product of 2k+1 for k in 0 .. n-1.
OddProduct(n) == IF n <= 0 THEN 1 ELSE (2 * n - 1) * OddProduct(n - 1)

\* Common denominator of the terms (-1)^k / (2k+1), k <= MaxIter.
Den == OddProduct(MaxIter + 1)

\* (-1) ** k / (2 * k + 1), as a numerator over Den.
Term(k) == (IF k % 2 = 0 THEN 1 ELSE -1) * (Den \div (2 * k + 1))

RECURSIVE SegmentLoop(_, _, _)
\* The loop of compute_segment: the running total after k = k, ..., end - 1.
SegmentLoop(total, k, end) ==
  IF k >= end THEN total ELSE SegmentLoop(total + Term(k), k + 1, end)

\* compute_segment(start, end): the partial sum over [start, end), ascending k.
compute_segment(start, end) == SegmentLoop(0, start, end)

RECURSIVE SumSeq(_)
\* sum(results) of a list of values.
SumSeq(s) == IF s = <<>> THEN 0 ELSE s[1] + SumSeq(Tail(s))

\* ----------------------------------------------------------- partitioners

\* A variant of GilSegments whose last segment stops at a chunk boundary
\* instead of iterations.
GilSegments_NoRemainder(iterations, threads) ==
  LET chunk == PyFloorDiv(iterations, threads)
  IN  [j \in 1 .. Max(threads, 0) |-> <<(j - 1) * chunk, j * chunk>>]

\* Even split with a fixed fan-out of n (run_gil_threads: n = threads):
\* [(i*chunk, (i+1)*chunk if i < n-1 else iterations) for i in range(n)].
GilSegments(iterations, threads) ==
  LET chunk == PyFloorDiv(iterations, threads)
  IN  [j \in 1 .. Max(threads, 0) |->
         <<(j - 1) * chunk,
           IF (j - 1) < threads - 1 THEN j * chunk ELSE iterations>>]

\* Even split of distribute_across_hosts: start = idx*chunk,
\* end = start + chunk if idx < n_hosts - 1 else iterations.
HostSegments(iterations, n_hosts) ==
  LET chunk == PyFloorDiv(iterations, n_hosts)
  IN  [j \in 1 .. Max(n_hosts, 0) |->
         LET start == (j - 1) * chunk
         IN  <<start, IF (j - 1) < n_hosts - 1 THEN start + chunk ELSE iterations>>]

\* A variant of CeilChunk that rounds the quotient up.
CeilChunk_Ceil(iterations, n) == Max(1, PyFloorDiv(iterations + n - 1, n))

\* Ceiling chunk (producer-consumer and pool): chunk = max(1, iterations // n),
\* [(i*chunk, min((i+1)*chunk, iterations)) for i in range(ceil(iterations/chunk))].
CeilChunk(iterations, n) == Max(1, PyFloorDiv(iterations, n))

\* A variant of CeilSegments without the min(..., iterations) cap.
CeilSegments_NoCap(iterations, n) ==
  LET chunk == CeilChunk(iterations, n)
      count == PyFloorDiv(iterations + chunk - 1, chunk)
  IN  [j \in 1 .. Max(count, 0) |-> <<(j - 1) * chunk, j * chunk>>]

CeilSegments(iterations, n) ==
  LET chunk == CeilChunk(iterations, n)
      count == PyFloorDiv(iterations + chunk - 1, chunk)
  IN  [j \in 1 .. Max(count, 0) |->
         <<(j - 1) * chunk, Min(j * chunk, iterations)>>]

\* The indices a segment <<start, end>> covers.
Indices(seg) == seg[1] .. (seg[2] - 1)

\* ------------------------------------------------------------------- text

\* A token of text: a symbol, or a decimal numeral carrying its value.
Tok(kind) == <<kind, 0>>

Num(v) == <<"num", v>>

PI == Tok("pi")

APPROX == Tok("approx")

SP == Tok(" ")

NL == Tok("\n")

COMMA == Tok(",")

IsSpace(t) == t = SP \/ t = NL

RECURSIVE SplitLoop(_, _, _, _)
\* str.split(sep): cur is the part being read, acc the parts already closed.
SplitLoop(s, sep, cur, acc) ==
  IF s = <<>> THEN Append(acc, cur)
  ELSE IF Head(s) = sep THEN SplitLoop(Tail(s), sep, <<>>, Append(acc, cur))
  ELSE SplitLoop(Tail(s), sep, Append(cur, Head(s)), acc)

\* s.split(sep): always at least one part.
Split(s, sep) == SplitLoop(s, sep, <<>>, <<>>)

RECURSIVE LStrip(_)
LStrip(s) == IF s # <<>> /\ IsSpace(Head(s)) THEN LStrip(Tail(s)) ELSE s

RECURSIVE RStrip(_)
RStrip(s) ==
  IF s # <<>> /\ IsSpace(s[Len(s)]) THEN RStrip(SubSeq(s, 1, Len(s) - 1)) ELSE s

\* str.strip()
Strip(s) == RStrip(LStrip(s))

\* str.splitlines(): no line at all for the empty string.
SplitLines(s) == IF s = <<>> THEN <<>> ELSE Split(s, NL)

\* float(text) succeeds exactly on one numeral.
IsFloatText(s) == Len(s) = 1 /\ s[1][1] = "num"

\* f"π ≈ {value}"
ApproxLine(value) == <<PI, SP, APPROX, SP, Num(value)>>

\* A variant of run_local_segment that prints the partial sum unscaled.
run_local_segment_Unscaled(start, end) ==
  Append(ApproxLine(compute_segment(start, end)), NL)

\* run_local_segment(start, end): what it prints (print's newline included).
run_local_segment(start, end) ==
  Append(ApproxLine(4 * compute_segment(start, end)), NL)

\* Lines 172-177 of distribute_across_hosts on the captured output:
\* the outcome "IndexError" (line 172, outside the try), "parse_error"
\* (the except branch) or "ok" with the value read.
ParseOutput(output) ==
  LET lines == SplitLines(Strip(output))
  IN  IF lines = <<>> THEN [outcome |-> "IndexError", value |-> 0]
      ELSE LET parts == Split(lines[1], APPROX)
           IN  IF Len(parts) < 2 THEN [outcome |-> "parse_error", value |-> 0]
               ELSE IF ~IsFloatText(Strip(parts[2]))
                    THEN [outcome |-> "parse_error", value |-> 0]
               ELSE [outcome |-> "ok", value |-> Strip(parts[2])[1][2]]

\* ------------------------------------------------------------------ state

VARIABLES
  args,        \* the parsed command line (argparse namespace)
  fault,       \* environment: the segment whose evaluation raises or hangs
  pc,          \* where main() and the executor it called stand
  exc,         \* the exception or exit that ended the run ("" while none)
  segments,    \* the executor's segment list
  wst,         \* state of each worker started, in start order
  wseg,        \* the segment each worker holds (<<>>: none)
  tasks,       \* the task queue (pool: the tasks not yet taken)
  results,     \* the result queue
  slots,       \* run_gil_threads' results list; the pool's result list
  nput,        \* items the producer has put on the task queue
  ncollected,  \* results the producer has taken from the result queue
  joined,      \* workers joined so far
  total,       \* the running total of the collecting loop
  result,      \* the executor's return value (<<>> until it returns)
  contacted,   \* the ssh commands issued: <<host, start, end>>
  outstanding, \* hosts whose ssh command is running
  stdout,      \* the lines printed to standard output
  got,         \* history: per segment index, the consumers that dequeued it
  produced,    \* history: per segment index, the values put on the result queue
  results_src, \* history: the segment index behind each entry of results
  counted,     \* history: per segment index, times its value was added to total
  replies      \* history: the reply each ssh command came back with

vars == <<args, fault, pc, exc, segments, wst, wseg, tasks, results, slots,
          nput, ncollected, joined, total, result, contacted, outstanding,
          stdout, got, produced, results_src, counted, replies>>

\* ----------------------------------------------------------------- inputs

\* os.cpu_count() of the machine, and the two defaults main derives from it.
CpuCount == MaxWorkers

default_threads == CpuCount

default_cores == PyFloorDiv(default_threads, 2)

\* The namespace of a command line with no option given.
NoArgs ==
  [start |-> None, end |-> None, hosts |-> <<>>, iterations |-> None,
   threads |-> default_threads, processes |-> default_cores,
   with_gil |-> FALSE, with_thread |-> FALSE, with_process |-> FALSE,
   pool |-> None, segments |-> None, seg_size |-> None]

IterCounts == {Some(n) : n \in 1 .. MaxIter}

WorkerCounts == (0 - 1) .. MaxWorkers

Host(n) == <<"host", n>>

RECURSIVE HostList(_)
\* The --hosts string naming hosts 1 .. n: "h1,h2,...".
HostList(n) ==
  IF n <= 1 THEN <<Host(1)>> ELSE HostList(n - 1) \o <<COMMA, Host(n)>>

\* One backend selected, every iteration count and worker count.
SingleModeArgs ==
       {[NoArgs EXCEPT !.with_gil = TRUE, !.iterations = it, !.threads = w] :
          it \in IterCounts, w \in WorkerCounts}
  \cup {[NoArgs EXCEPT !.with_thread = TRUE, !.iterations = it, !.threads = w] :
          it \in IterCounts, w \in WorkerCounts}
  \cup {[NoArgs EXCEPT !.with_process = TRUE, !.iterations = it, !.processes = w] :
          it \in IterCounts, w \in WorkerCounts}
  \cup {[NoArgs EXCEPT !.pool = Some(w), !.iterations = it] :
          it \in IterCounts, w \in WorkerCounts}
  \cup {[NoArgs EXCEPT !.hosts = HostList(n), !.iterations = it] :
          it \in IterCounts \cup {None}, n \in 1 .. MaxHosts}

\* The remaining branches of main: worker mode, manual segments, sequential,
\* nothing selected, and a backend without an iteration count.
OtherArgs ==
       {[NoArgs EXCEPT !.start = Some(s), !.end = Some(e)] :
          s \in 0 .. MaxIter, e \in 0 .. MaxIter}
  \cup {[NoArgs EXCEPT !.segments = Some(q[1]), !.seg_size = Some(q[2])] :
          q \in {r \in (0 .. MaxIter) \X (0 .. MaxIter) : r[1] * r[2] <= MaxIter}}
  \cup {[NoArgs EXCEPT !.iterations = it] : it \in IterCounts \cup {None, Some(0)}}
  \cup {[NoArgs EXCEPT !.hosts = HostList(1), !.iterations = Some(0)]}
  \cup {[NoArgs EXCEPT !.with_gil = TRUE], [NoArgs EXCEPT !.with_thread = TRUE],
        [NoArgs EXCEPT !.with_process = TRUE], [NoArgs EXCEPT !.pool = Some(1)]}

\* The options that select a backend.
ModeFlags == {"with_gil", "with_thread", "with_process", "pool", "hosts"}

\* The namespace a with the backend option m given as well.
WithMode(a, m) ==
  CASE m = "with_gil" -> [a EXCEPT !.with_gil = TRUE]
    [] m = "with_thread" -> [a EXCEPT !.with_thread = TRUE]
    [] m = "with_process" -> [a EXCEPT !.with_process = TRUE]
    [] m = "pool" -> [a EXCEPT !.pool = Some(1)]
    [] m = "hosts" -> [a EXCEPT !.hosts = HostList(1)]

\* Two different backends selected on one command line.
ConflictArgs ==
  {WithMode(WithMode([NoArgs EXCEPT !.iterations = it], q[1]), q[2]) :
     it \in IterCounts, q \in {r \in ModeFlags \X ModeFlags : r[1] # r[2]}}

\* --start and --end given together with a backend option.
WorkerFlagArgs ==
  {WithMode([NoArgs EXCEPT !.start = Some(s), !.end = Some(e), !.iterations = it], m) :
     s \in 0 .. MaxIter, e \in 0 .. MaxIter, it \in {None, Some(1)}, m \in ModeFlags}

ArgSpace == SingleModeArgs \cup OtherArgs \cup ConflictArgs \cup WorkerFlagArgs

NoFault == [kind |-> "none", seg |-> 0]

Faults == {[kind |-> k, seg |-> j] : k \in {"raise", "hang"}, j \in 1 .. FaultSegs}

\* The local backends with workers, where a fault can strike.
LocalBackend(a) ==
  a.start = None /\ a.end = None /\ a.hosts = <<>>
  /\ (a.with_gil \/ a.with_thread \/ a.with_process \/ Truthy(a.pool))

\* The state main() starts in, for a command line drawn from space.
InitFrom(space, faults) ==
  /\ args \in space
  /\ fault \in {NoFault} \cup (IF LocalBackend(args) THEN faults ELSE {})
  /\ pc = "main"
  /\ exc = ""
  /\ segments = <<>>
  /\ wst = <<>>
  /\ wseg = <<>>
  /\ tasks = <<>>
  /\ results = <<>>
  /\ slots = <<>>
  /\ nput = 0
  /\ ncollected = 0
  /\ joined = 0
  /\ total = 0
  /\ result = None
  /\ contacted = <<>>
  /\ outstanding = {}
  /\ stdout = <<>>
  /\ got = <<>>
  /\ produced = <<>>
  /\ results_src = <<>>
  /\ counted = <<>>
  /\ replies = <<>>

Init == InitFrom(ArgSpace, Faults)

\* ------------------------------------------------------------------- main

hist == <<got, produced, results_src, counted>>

remote == <<contacted, outstanding, replies>>

queues == <<tasks, results, nput, ncollected>>

workers == <<wst, wseg, joined>>

RECURSIVE ManualTotal(_, _, _)
\* The manual-segments loop of main: total after segments i, ..., n - 1.
ManualTotal(i, n, seg_size) ==
  IF i >= n THEN 0
  ELSE compute_segment(i * seg_size, i * seg_size + seg_size)
       + ManualTotal(i + 1, n, seg_size)

\* A variant of SelectMode that looks at --hosts before --start and --end.
SelectMode_HostsFirst(a) ==
  IF a.hosts # <<>> THEN
    IF Truthy(a.iterations) THEN "distribute_across_hosts" ELSE "parser.error"
  ELSE IF a.start # None /\ a.end # None THEN "run_local_segment"
  ELSE IF a.with_gil THEN "run_gil_threads"
  ELSE IF a.with_thread THEN "run_producer_consumer_threads"
  ELSE IF a.with_process THEN "run_producer_consumer_processes"
  ELSE IF Truthy(a.pool) THEN "run_pool"
  ELSE IF Truthy(a.segments) /\ Truthy(a.seg_size) THEN "manual"
  ELSE IF Truthy(a.iterations) THEN "sequential"
  ELSE "parser.error"

\* A variant of SelectMode that falls back on the GIL threads backend when
\* nothing is selected.
SelectMode_DefaultGil(a) ==
  IF a.start # None /\ a.end # None THEN "run_local_segment"
  ELSE IF a.hosts # <<>> THEN
         IF Truthy(a.iterations) THEN "distribute_across_hosts" ELSE "parser.error"
  ELSE IF a.with_thread THEN "run_producer_consumer_threads"
  ELSE IF a.with_process THEN "run_producer_consumer_processes"
  ELSE IF Truthy(a.pool) THEN "run_pool"
  ELSE IF Truthy(a.segments) /\ Truthy(a.seg_size) THEN "manual"
  ELSE IF Truthy(a.iterations) THEN "sequential"
  ELSE "run_gil_threads"

\* The branch of main's if/elif chain a namespace takes.
SelectMode(a) ==
  IF a.start # None /\ a.end # None THEN "run_local_segment"
  ELSE IF a.hosts # <<>> THEN
         IF Truthy(a.iterations) THEN "distribute_across_hosts" ELSE "parser.error"
  ELSE IF a.with_gil THEN "run_gil_threads"
  ELSE IF a.with_thread THEN "run_producer_consumer_threads"
  ELSE IF a.with_process THEN "run_producer_consumer_processes"
  ELSE IF Truthy(a.pool) THEN "run_pool"
  ELSE IF Truthy(a.segments) /\ Truthy(a.seg_size) THEN "manual"
  ELSE IF Truthy(a.iterations) THEN "sequential"
  ELSE "parser.error"

\* The three lines main prints after a run.
Report(value) ==
  ApproxLine(value) \o <<NL>> \o <<Tok("Error = abs(pi - result)"), NL>>
  \o <<Tok("Time elapsed"), NL>>

\* main(): parse, then take one branch. The worker mode, the manual mode and
\* the sequential mode run here to their end; a backend is entered.
main ==
  /\ pc = "main"
  /\ LET m == SelectMode(args)
     IN  CASE m = "run_local_segment" ->
                /\ stdout' = stdout \o run_local_segment(Val(args.start), Val(args.end))
                /\ pc' = "done"
                /\ UNCHANGED <<exc, result>>
           [] m = "parser.error" ->
                /\ pc' = "error"
                /\ exc' = "SystemExit(2)"
                /\ UNCHANGED <<stdout, result>>
           [] m = "manual" ->
                /\ result' = Some(4 * ManualTotal(0, Val(args.segments), Val(args.seg_size)))
                /\ pc' = "returned"
                /\ UNCHANGED <<stdout, exc>>
           [] m = "sequential" ->
                /\ result' = Some(4 * compute_segment(0, Val(args.iterations)))
                /\ pc' = "returned"
                /\ UNCHANGED <<stdout, exc>>
           [] OTHER ->
                /\ pc' = m
                /\ UNCHANGED <<stdout, exc, result>>
  /\ UNCHANGED <<args, fault, segments, slots, total, workers, queues, remote, hist>>

\* Lines 243-247 (216-221 after the remote backend): print the report.
PrintReport ==
  /\ pc = "returned"
  /\ stdout' = stdout \o Report(Val(result))
  /\ pc' = "done"
  /\ UNCHANGED <<args, fault, exc, segments, slots, total, result, workers,
                 queues, remote, hist>>

\* --------------------------------------------------------- run_gil_threads

\* Whether the evaluation of segment number idx (from 1) raises / hangs.
Raises(idx) == fault.kind = "raise" /\ fault.seg = idx

Hangs(idx) == fault.kind = "hang" /\ fault.seg = idx

\* The history variables of a run over n segments (or slots): nothing yet.
\* got[k]: the consumers that dequeued segment k; produced[k]: the values
\* put for segment k (run_gil_threads: the threads that wrote slot k);
\* counted[k]: how often segment k's value was added to the total.
StartHistory(n) ==
  /\ got' = [k \in 1 .. n |-> <<>>]
  /\ produced' = [k \in 1 .. n |-> <<>>]
  /\ counted' = [k \in 1 .. n |-> 0]
  /\ results_src' = <<>>

\* Lines 22-27: the chunk, the segments and the pre-sized results list.
GilPartition ==
  /\ pc = "run_gil_threads"
  /\ IF args.iterations = None
       THEN /\ pc' = "error" /\ exc' = "TypeError"
            /\ UNCHANGED <<segments, slots, hist>>
     ELSE IF args.threads = 0
       THEN /\ pc' = "error" /\ exc' = "ZeroDivisionError"
            /\ UNCHANGED <<segments, slots, hist>>
     ELSE /\ segments' = GilSegments(Val(args.iterations), args.threads)
          /\ slots' = [j \in 1 .. Max(args.threads, 0) |-> 0]
          /\ pc' = "gil"
          /\ exc' = exc
          /\ StartHistory(Max(args.threads, 0))
  /\ UNCHANGED <<args, fault, total, result, stdout, workers, queues, remote>>

\* Lines 33-36: start the thread of the next segment.
GilStart ==
  /\ pc = "gil"
  /\ Len(wst) < Len(segments)
  /\ wst' = Append(wst, "running")
  /\ wseg' = Append(wseg, segments[Len(wst) + 1])
  /\ UNCHANGED <<args, fault, pc, exc, segments, slots, total, result, stdout,
                 joined, queues, remote, hist>>

\* A variant of GilSlot: every thread writes the first slot.
GilSlot_Shared(idx) == 1

\* The slot thread idx writes in line 30, results[idx] = ... .
GilSlot(idx) == idx

\* Lines 29-30, thread idx: results[idx] = compute_segment(*seg). A raise
\* ends the thread with its slot untouched; a hang leaves it running.
GilWorker(idx) ==
  /\ idx \in 1 .. Len(wst)
  /\ wst[idx] = "running"
  /\ ~Hangs(idx)
  /\ IF Raises(idx)
       THEN /\ wst' = [wst EXCEPT ![idx] = "died"]
            /\ UNCHANGED <<slots, produced>>
       ELSE /\ slots' = [slots EXCEPT ![GilSlot(idx)] =
                                        compute_segment(wseg[idx][1], wseg[idx][2])]
            /\ produced' = [produced EXCEPT ![GilSlot(idx)] = Append(@, idx)]
            /\ wst' = [wst EXCEPT ![idx] = "finished"]
  /\ UNCHANGED <<args, fault, pc, exc, segments, total, result, stdout, wseg,
                 joined, queues, remote, got, results_src, counted>>

\* A variant of Ended: the join gives up on a worker that is still running.
Ended_Timeout(w) == TRUE

\* Whether a join of worker w returns: the thread or process has ended.
Ended(w) == wst[w] \in {"finished", "died", "exited"}

\* Lines 37-38: join the next thread, once it has ended.
GilJoin ==
  /\ pc = "gil"
  /\ Len(wst) = Len(segments)
  /\ joined < Len(wst)
  /\ Ended(joined + 1)
  /\ joined' = joined + 1
  /\ UNCHANGED <<args, fault, pc, exc, segments, slots, total, result, stdout,
                 wst, wseg, queues, remote, hist>>

\* Line 39: return 4 * sum(results).
GilReturn ==
  /\ pc = "gil"
  /\ Len(wst) = Len(segments)
  /\ joined = Len(wst)
  /\ result' = Some(4 * SumSeq(slots))
  /\ pc' = "returned"
  /\ UNCHANGED <<args, fault, exc, segments, slots, total, stdout, workers,
                 queues, remote, hist>>

run_gil_threads == GilPartition \/ GilStart \/ GilJoin \/ GilReturn

\* ------------------------------------------- producer-consumer executors

\* The number (from 1) of a segment taken off the task queue.
SegIndex(seg) == CHOOSE k \in 1 .. Len(segments) : segments[k] = seg

\* A variant of QueueGet that reads the head without removing it.
QueueGet_Peek(q) == [item |-> Head(q), rest |-> q]

\* Queue.get() on a non-empty queue: the item handed out and what is left.
QueueGet(q) == [item |-> Head(q), rest |-> Tail(q)]

\* A variant of QueuePut that puts the item at the head (a LIFO queue).
QueuePut_Front(q, item) == <<item>> \o q

\* Queue.put(item)
QueuePut(q, item) == Append(q, item)

\* Lines 45-47 / 84-86, consumer c: seg = tasks.get(), blocking while the
\* queue is empty; the sentinel None ends the loop.
ConsumerGet(c) ==
  /\ wst[c] = "waiting"
  /\ tasks # <<>>
  /\ LET g == QueueGet(tasks)
     IN  /\ tasks' = g.rest
         /\ IF g.item = None
              THEN /\ wst' = [wst EXCEPT ![c] = "exited"]
                   /\ UNCHANGED <<wseg, got>>
              ELSE /\ wst' = [wst EXCEPT ![c] = "holding"]
                   /\ wseg' = [wseg EXCEPT ![c] = g.item]
                   /\ got' = [got EXCEPT ![SegIndex(g.item)] = Append(@, c)]
  /\ UNCHANGED <<args, fault, pc, exc, segments, slots, total, result, stdout,
                 results, nput, ncollected, joined, remote, produced,
                 results_src, counted>>

\* A variant of AfterPut: the consumer leaves its loop after one segment.
AfterPut_Exit == "exited"

\* Line 44 / 83, while True: after a put the consumer is back at tasks.get().
AfterPut == "waiting"

\* Line 48 / 87, consumer c: results.put(compute_segment(*seg)). A raise ends
\* the consumer with nothing put; a hang leaves it holding the segment.
ConsumerCompute(c) ==
  /\ wst[c] = "holding"
  /\ LET k == SegIndex(wseg[c])
         value == compute_segment(wseg[c][1], wseg[c][2])
     IN  /\ ~Hangs(k)
         /\ IF Raises(k)
              THEN /\ wst' = [wst EXCEPT ![c] = "died"]
                   /\ UNCHANGED <<results, results_src, produced, wseg>>
              ELSE /\ results' = QueuePut(results, value)
                   /\ results_src' = Append(results_src, k)
                   /\ produced' = [produced EXCEPT ![k] = Append(@, value)]
                   /\ wst' = [wst EXCEPT ![c] = AfterPut]
                   /\ wseg' = [wseg EXCEPT ![c] = <<>>]
  /\ UNCHANGED <<args, fault, pc, exc, segments, slots, total, result, stdout,
                 tasks, nput, ncollected, joined, remote, got, counted>>

\* thread_consumer, as run by consumer thread c (daemon: it lives while
\* the interpreter does).
thread_consumer(c) ==
  /\ pc \in {"pc_threads", "returned"}
  /\ SelectMode(args) = "run_producer_consumer_threads"
  /\ c \in 1 .. Len(wst)
  /\ (ConsumerGet(c) \/ ConsumerCompute(c))

\* process_consumer, as run by worker process c.
process_consumer(c) ==
  /\ pc \in {"pc_processes", "returned"}
  /\ SelectMode(args) = "run_producer_consumer_processes"
  /\ c \in 1 .. Len(wst)
  /\ (ConsumerGet(c) \/ ConsumerCompute(c))

\* Lines 53-60 / 92-99: the chunk, the segments and the two queues.
PcPartition(fn, body, n) ==
  /\ pc = fn
  /\ IF args.iterations = None
       THEN /\ pc' = "error" /\ exc' = "TypeError"
            /\ UNCHANGED <<segments, hist>>
     ELSE IF n = 0
       THEN /\ pc' = "error" /\ exc' = "ZeroDivisionError"
            /\ UNCHANGED <<segments, hist>>
     ELSE /\ segments' = CeilSegments(Val(args.iterations), n)
          /\ pc' = body
          /\ exc' = exc
          /\ StartHistory(Len(CeilSegments(Val(args.iterations), n)))
  /\ UNCHANGED <<args, fault, slots, total, result, stdout, workers, queues, remote>>

\* Lines 62-66 / 101-104: start the next of the n consumers.
PcSpawn(body, n) ==
  /\ pc = body
  /\ Len(wst) < n
  /\ wst' = Append(wst, "waiting")
  /\ wseg' = Append(wseg, <<>>)
  /\ UNCHANGED <<args, fault, pc, exc, segments, slots, total, result, stdout,
                 joined, queues, remote, hist>>

\* Lines 69-70 / 106-107: put the next segment on the task queue.
PcPut(body, n) ==
  /\ pc = body
  /\ Len(wst) >= n
  /\ nput < Len(segments)
  /\ tasks' = QueuePut(tasks, segments[nput + 1])
  /\ nput' = nput + 1
  /\ UNCHANGED <<args, fault, pc, exc, segments, slots, total, result, stdout,
                 workers, results, ncollected, remote, hist>>

\* A variant of SentinelCount: a single sentinel is put, whatever the number
\* of workers.
SentinelCount_One == Min(1, Len(wst))

\* A variant of SentinelCount: one sentinel short.
SentinelCount_Short == Len(wst) - 1

\* The sentinels lines 72-73 / 108-109 put: one per worker started.
SentinelCount == Len(wst)

\* Lines 72-73 / 108-109: put the next sentinel.
PcSentinel(body, n) ==
  /\ pc = body
  /\ Len(wst) >= n
  /\ nput >= Len(segments)
  /\ nput < Len(segments) + SentinelCount
  /\ tasks' = QueuePut(tasks, None)
  /\ nput' = nput + 1
  /\ UNCHANGED <<args, fault, pc, exc, segments, slots, total, result, stdout,
                 workers, results, ncollected, remote, hist>>

\* A variant of CollectCount: the collecting loop stops one result short.
CollectCount_Short == Len(segments) - 1

\* How many results the collecting loop of lines 76-77 / 112-113 takes.
CollectCount == Len(segments)

\* Lines 76-77 / 112-113: total += results.get(), blocking while the result
\* queue is empty.
PcCollect(body, n) ==
  /\ pc = body
  /\ Len(wst) >= n
  /\ nput = Len(segments) + SentinelCount
  /\ ncollected < CollectCount
  /\ results # <<>>
  /\ LET g == QueueGet(results)
     IN  /\ results' = g.rest
         /\ total' = total + g.item
  /\ counted' = [counted EXCEPT ![Head(results_src)] = @ + 1]
  /\ results_src' = Tail(results_src)
  /\ ncollected' = ncollected + 1
  /\ UNCHANGED <<args, fault, pc, exc, segments, slots, result, stdout,
                 workers, tasks, nput, remote, got, produced>>

\* Whether the producer has left its collecting loop.
Collected(n) ==
  /\ Len(wst) >= n
  /\ nput = Len(segments) + SentinelCount
  /\ ncollected >= CollectCount

\* Lines 114-115: join the next worker process, once it has ended.
PcJoin(body, n) ==
  /\ pc = body
  /\ Collected(n)
  /\ joined < Len(wst)
  /\ Ended(joined + 1)
  /\ joined' = joined + 1
  /\ UNCHANGED <<args, fault, pc, exc, segments, slots, total, result, stdout,
                 wst, wseg, queues, remote, hist>>

\* Line 78 / 116: return 4 * total.
PcReturn(body, n) ==
  /\ pc = body
  /\ Collected(n)
  /\ result' = Some(4 * total)
  /\ pc' = "returned"
  /\ UNCHANGED <<args, fault, exc, segments, slots, total, stdout, workers,
                 queues, remote, hist>>

\* run_producer_consumer_threads: the workers are never joined.
run_producer_consumer_threads ==
  LET fn == "run_producer_consumer_threads"
      n == args.threads
  IN  \/ PcPartition(fn, "pc_threads", n)
      \/ PcSpawn("pc_threads", n)
      \/ PcPut("pc_threads", n)
      \/ PcSentinel("pc_threads", n)
      \/ PcCollect("pc_threads", n)
      \/ PcReturn("pc_threads", n)

\* A variant of JoinedAll: the return does not wait for the joins.
JoinedAll_Skip == TRUE

\* Lines 114-116: the return follows the loop that joins every worker.
JoinedAll == joined = Len(wst)

\* run_producer_consumer_processes: every worker is joined before the return.
run_producer_consumer_processes ==
  LET fn == "run_producer_consumer_processes"
      n == args.processes
  IN  \/ PcPartition(fn, "pc_processes", n)
      \/ PcSpawn("pc_processes", n)
      \/ PcPut("pc_processes", n)
      \/ PcSentinel("pc_processes", n)
      \/ PcCollect("pc_processes", n)
      \/ PcJoin("pc_processes", n)
      \/ (JoinedAll /\ PcReturn("pc_processes", n))

\* ----------------------------------------------------------------- run_pool

Pending == [state |-> "pending", value |-> 0]

\* Lines 121-127: the chunk and the segments, then Pool(pool_size), which
\* refuses a size below 1, and starmap handing the pool every segment.
PoolPartition ==
  /\ pc = "run_pool"
  /\ LET n == Val(args.pool)
     IN  IF args.iterations = None
           THEN /\ pc' = "error" /\ exc' = "TypeError"
                /\ UNCHANGED <<segments, slots, wst, wseg, tasks, hist>>
         ELSE IF n = 0
           THEN /\ pc' = "error" /\ exc' = "ZeroDivisionError"
                /\ UNCHANGED <<segments, slots, wst, wseg, tasks, hist>>
         ELSE IF n < 1
           THEN /\ pc' = "error" /\ exc' = "ValueError"
                /\ segments' = CeilSegments(Val(args.iterations), n)
                /\ UNCHANGED <<slots, wst, wseg, tasks, hist>>
         ELSE LET segs == CeilSegments(Val(args.iterations), n)
              IN  /\ segments' = segs
                  /\ wst' = [w \in 1 .. n |-> "waiting"]
                  /\ wseg' = [w \in 1 .. n |-> <<>>]
                  /\ tasks' = segs
                  /\ slots' = [k \in 1 .. Len(segs) |-> Pending]
                  /\ StartHistory(Len(segs))
                  /\ pc' = "pool"
                  /\ exc' = exc
  /\ UNCHANGED <<args, fault, total, result, stdout, joined, results, nput,
                 ncollected, remote>>

\* A pool worker takes the next task.
PoolWorkerGet(w) ==
  /\ wst[w] = "waiting"
  /\ tasks # <<>>
  /\ LET g == QueueGet(tasks)
     IN  /\ tasks' = g.rest
         /\ wst' = [wst EXCEPT ![w] = "holding"]
         /\ wseg' = [wseg EXCEPT ![w] = g.item]
         /\ got' = [got EXCEPT ![SegIndex(g.item)] = Append(@, w)]
  /\ UNCHANGED <<args, fault, pc, exc, segments, slots, total, result, stdout,
                 results, nput, ncollected, joined, remote, produced,
                 results_src, counted>>

\* A pool worker evaluates its task and sends back the value, or the
\* exception the evaluation raised; a hang leaves it holding the task.
PoolWorkerCompute(w) ==
  /\ wst[w] = "holding"
  /\ LET k == SegIndex(wseg[w])
         value == compute_segment(wseg[w][1], wseg[w][2])
     IN  /\ ~Hangs(k)
         /\ IF Raises(k)
              THEN /\ slots' = [slots EXCEPT ![k] = [state |-> "raised", value |-> 0]]
                   /\ UNCHANGED produced
              ELSE /\ slots' = [slots EXCEPT ![k] = [state |-> "ok", value |-> value]]
                   /\ produced' = [produced EXCEPT ![k] = Append(@, value)]
  /\ wst' = [wst EXCEPT ![w] = "waiting"]
  /\ wseg' = [wseg EXCEPT ![w] = <<>>]
  /\ UNCHANGED <<args, fault, pc, exc, segments, total, result, stdout, tasks,
                 results, nput, ncollected, joined, remote, got, results_src,
                 counted>>

pool_worker(w) ==
  /\ pc = "pool"
  /\ w \in 1 .. Len(wst)
  /\ (PoolWorkerGet(w) \/ PoolWorkerCompute(w))

\* Lines 126-128: starmap returns once every task has an outcome and
\* re-raises a task's exception; leaving the with block terminates the pool.
PoolGather ==
  /\ pc = "pool"
  /\ \A k \in 1 .. Len(slots) : slots[k].state # "pending"
  /\ wst' = [w \in 1 .. Len(wst) |-> "terminated"]
  /\ IF \E k \in 1 .. Len(slots) : slots[k].state = "raised"
       THEN /\ pc' = "error" /\ exc' = "WorkerError"
            /\ UNCHANGED <<result, counted>>
       ELSE /\ result' = Some(4 * SumSeq([k \in 1 .. Len(slots) |-> slots[k].value]))
            /\ counted' = [k \in 1 .. Len(slots) |-> counted[k] + 1]
            /\ pc' = "returned"
            /\ exc' = exc
  /\ UNCHANGED <<args, fault, segments, slots, total, stdout, wseg, joined,
                 queues, remote, got, produced, results_src>>

run_pool == PoolPartition \/ PoolGather

\* ------------------------------------------------- distribute_across_hosts

\* hosts = args.hosts.split(',')
Hosts == Split(args.hosts, COMMA)

\* What an ssh command for the segment [start, end) can come back with: an
\* exit status and the captured standard output.
Replies(start, end) ==
  LET wanted == run_local_segment(start, end)
      banner == <<Tok("motd"), NL>>
  IN  {[status |-> 0, output |-> wanted],
       [status |-> 1, output |-> <<>>],
       [status |-> 0, output |-> <<>>],
       [status |-> 0, output |-> <<NL>>],
       [status |-> 0, output |-> banner],
       [status |-> 0, output |-> banner \o wanted],
       [status |-> 0, output |-> <<PI, SP, APPROX, SP, Tok("motd"), NL>>],
       [status |-> 0, output |-> <<Tok("motd"), APPROX>> \o SubSeq(wanted, 4, Len(wanted))]}

\* Lines 142-150: one even-split segment per host, total = 0.0.
HostsPartition ==
  /\ pc = "distribute_across_hosts"
  /\ segments' = HostSegments(Val(args.iterations), Len(Hosts))
  /\ total' = 0
  /\ StartHistory(Len(Hosts))
  /\ pc' = "hosts"
  /\ UNCHANGED <<args, fault, exc, slots, result, stdout, workers, queues, remote>>

\* A variant of MayInvoke: commands are started without waiting.
MayInvoke_Concurrent == TRUE

\* Whether the loop of line 151 may issue its next command: the previous
\* check_output call has returned.
MayInvoke == outstanding = {}

\* Lines 155-166: build the ssh command of the next host and start it.
HostInvoke ==
  /\ pc = "hosts"
  /\ MayInvoke
  /\ Len(contacted) < Len(segments)
  /\ LET k == Len(contacted) + 1
     IN  /\ contacted' = Append(contacted, <<Hosts[k], segments[k][1], segments[k][2]>>)
         /\ outstanding' = outstanding \cup {k}
  /\ UNCHANGED <<args, fault, pc, exc, segments, slots, total, result, stdout,
                 workers, queues, hist, replies>>

\* A variant of HandleReply that skips a reply it cannot use, adding 0.
HandleReply_Skip(reply) ==
  IF reply.status = 0 /\ ParseOutput(reply.output).outcome = "ok"
    THEN [outcome |-> "add", value |-> ParseOutput(reply.output).value]
    ELSE [outcome |-> "add", value |-> 0]

\* What lines 167-179 do with a reply: "exit" (sys.exit(1)), "IndexError"
\* (uncaught) or "add" with the value added to the total.
HandleReply(reply) ==
  IF reply.status # 0 THEN [outcome |-> "exit", value |-> 0]
  ELSE LET p == ParseOutput(reply.output)
       IN  IF p.outcome = "ok" THEN [outcome |-> "add", value |-> p.value]
           ELSE IF p.outcome = "IndexError" THEN [outcome |-> "IndexError", value |-> 0]
           ELSE [outcome |-> "exit", value |-> 0]

\* Lines 166-179: the command of host k returns; its output is parsed and
\* added, or the run ends.
HostReturn ==
  /\ pc = "hosts"
  /\ \E k \in outstanding :
       \E reply \in Replies(segments[k][1], segments[k][2]) :
         LET h == HandleReply(reply)
         IN  /\ outstanding' = outstanding \ {k}
             /\ replies' = Append(replies, reply)
             /\ IF h.outcome = "add"
                  THEN /\ total' = total + h.value
                       /\ counted' = [counted EXCEPT ![k] = @ + 1]
                       /\ UNCHANGED <<pc, exc>>
                  ELSE /\ pc' = "error"
                       /\ exc' = IF h.outcome = "exit" THEN "SystemExit(1)" ELSE "IndexError"
                       /\ UNCHANGED <<total, counted>>
  /\ UNCHANGED <<args, fault, segments, slots, result, stdout, workers, queues,
                 contacted, got, produced, results_src>>

\* Line 181: return total.
HostsReturn ==
  /\ pc = "hosts"
  /\ Len(contacted) = Len(segments)
  /\ outstanding = {}
  /\ result' = Some(total)
  /\ pc' = "returned"
  /\ UNCHANGED <<args, fault, exc, segments, slots, total, stdout, workers,
                 queues, remote, hist>>

distribute_across_hosts == HostsPartition \/ HostInvoke \/ HostReturn \/ HostsReturn

\* ------------------------------------------------------------ specification

WorkerIds == 1 .. MaxWorkers

Next ==
  \/ main
  \/ PrintReport
  \/ run_gil_threads
  \/ \E idx \in WorkerIds : GilWorker(idx)
  \/ run_producer_consumer_threads
  \/ \E c \in WorkerIds : thread_consumer(c)
  \/ run_producer_consumer_processes
  \/ \E c \in WorkerIds : process_consumer(c)
  \/ run_pool
  \/ \E w \in WorkerIds : pool_worker(w)
  \/ distribute_across_hosts

Spec == Init /\ [][Next]_vars

\* Every thread and process that can run is eventually run.
Fairness ==
  /\ WF_vars(main \/ PrintReport \/ run_gil_threads \/ run_producer_consumer_threads
             \/ run_producer_consumer_processes \/ run_pool \/ distribute_across_hosts)
  /\ \A w \in WorkerIds :
       WF_vars(GilWorker(w) \/ thread_consumer(w) \/ process_consumer(w) \/ pool_worker(w))

FairSpec == Spec /\ Fairness

\* The partitioners alone, on a wider range of inputs: main and the first
\* step of each backend.
PartArgs ==
  LET its == {Some(n) : n \in 1 .. MaxPartIter}
      ws == 1 .. MaxPartWorkers
  IN       {[NoArgs EXCEPT !.with_gil = TRUE, !.iterations = it, !.threads = w] :
              it \in its, w \in ws}
      \cup {[NoArgs EXCEPT !.with_thread = TRUE, !.iterations = it, !.threads = w] :
              it \in its, w \in ws}
      \cup {[NoArgs EXCEPT !.with_process = TRUE, !.iterations = it, !.processes = w] :
              it \in its, w \in ws}
      \cup {[NoArgs EXCEPT !.pool = Some(w), !.iterations = it] : it \in its, w \in ws}
      \cup {[NoArgs EXCEPT !.hosts = HostList(w), !.iterations = it] :
              it \in its \cup {Some(1000)}, w \in ws}

InitPart == InitFrom(PartArgs, {})

NextPart ==
  \/ main
  \/ GilPartition
  \/ PcPartition("run_producer_consumer_threads", "pc_threads", args.threads)
  \/ PcPartition("run_producer_consumer_processes", "pc_processes", args.processes)
  \/ PoolPartition
  \/ HostsPartition

PartitionSpec == InitPart /\ [][NextPart]_vars

\* ------------------------------------------------------------------ claims

\* The backend main entered, and whether it is past its partitioning step.
Mode == SelectMode(args)

Partitioned == pc \notin {"main", Mode, "error"}

\* The worker count the selected backend was given.
WorkerCount ==
  CASE Mode = "run_gil_threads" -> args.threads
    [] Mode = "run_producer_consumer_threads" -> args.threads
    [] Mode = "run_producer_consumer_processes" -> args.processes
    [] Mode = "run_pool" -> Val(args.pool)
    [] Mode = "distribute_across_hosts" -> Len(Hosts)
    [] OTHER -> 0

SegIds == 1 .. Len(segments)

\* The segments are pairwise disjoint and cover exactly [0, n).
DisjointCover(n) ==
  /\ \A j, k \in SegIds : j # k => Indices(segments[j]) \cap Indices(segments[k]) = {}
  /\ UNION {Indices(segments[j]) : j \in SegIds} = 0 .. (n - 1)

\* C2: the even-split partition (run_gil_threads, distribute_across_hosts) of
\* iterations >= 1 over workers >= 1 has exactly `workers` segments, segment
\* i < workers-1 is [i*chunk, (i+1)*chunk) with chunk = iterations div workers,
\* the last one ends at iterations, and the segments are pairwise disjoint
\* with union [0, iterations).
C2_EvenSplit ==
  (Mode \in {"run_gil_threads", "distribute_across_hosts"} /\ Partitioned
   /\ WorkerCount >= 1)
  => LET n == Val(args.iterations)
         w == WorkerCount
         chunk == n \div w
     IN  /\ Len(segments) = w
         /\ \A j \in 1 .. (w - 1) : segments[j] = <<(j - 1) * chunk, j * chunk>>
         /\ segments[w] = <<(w - 1) * chunk, n>>
         /\ DisjointCover(n)

\* An even split with fewer iterations than workers: the chunk is 0 and the
\* last segment holds every index.
C2_Witness ==
  /\ Mode = "run_gil_threads"
  /\ pc = "gil"
  /\ Val(args.iterations) < args.threads
  /\ Len(segments) = args.threads
  /\ segments[1] = <<0, 0>>

\* C3: the ceiling-chunk partition (producer-consumer and pool backends) of
\* iterations >= 1 over workers >= 1, with chunk = max(1, iterations div
\* workers), has ceil(iterations / chunk) segments [i*chunk, min((i+1)*chunk,
\* iterations)), pairwise disjoint, each ending at or before iterations, with
\* union [0, iterations).
C3_CeilingChunk ==
  (Mode \in {"run_producer_consumer_threads", "run_producer_consumer_processes",
             "run_pool"} /\ Partitioned /\ WorkerCount >= 1)
  => LET n == Val(args.iterations)
         q == n \div WorkerCount
         chunk == IF q >= 1 THEN q ELSE 1
         count == CHOOSE c \in 1 .. n : c * chunk >= n /\ (c - 1) * chunk < n
     IN  /\ Len(segments) = count
         /\ \A j \in SegIds :
              /\ segments[j][1] = (j - 1) * chunk
              /\ segments[j][2] = (IF j * chunk <= n THEN j * chunk ELSE n)
              /\ segments[j][2] <= n
         /\ DisjointCover(n)

\* A ceiling-chunk partition with more segments than workers whose last
\* segment is cut short at iterations.
C3_Witness ==
  /\ Mode = "run_pool"
  /\ pc = "pool"
  /\ Len(segments) > WorkerCount
  /\ segments[Len(segments)][2] - segments[Len(segments)][1] < segments[1][2]

PcMode ==
  Mode \in {"run_producer_consumer_threads", "run_producer_consumer_processes"}

Returned == pc \in {"returned", "done"}

\* compute_segment of segment number k.
SegValue(k) == compute_segment(segments[k][1], segments[k][2])

\* C1: producer-consumer executors (threads and processes), iterations >= 1,
\* worker_count >= 1, every interleaving: a segment is dequeued by at most one
\* consumer and yields at most one value, and when the executor returns it
\* has collected exactly len(segments) results, every segment was dequeued
\* by exactly one consumer, yielded exactly one value (its partial sum), was
\* counted exactly once, and the value returned is 4 x the sum of the
\* segments' partial sums.
C1_ExactlyOnce ==
  (PcMode /\ Partitioned /\ WorkerCount >= 1)
  => /\ \A k \in SegIds :
          /\ Len(got[k]) <= 1
          /\ Len(produced[k]) <= Len(got[k])
          /\ counted[k] <= Len(produced[k])
     /\ Returned =>
          /\ ncollected = Len(segments)
          /\ \A k \in SegIds :
               /\ Len(got[k]) = 1
               /\ produced[k] = <<SegValue(k)>>
               /\ counted[k] = 1
          /\ result = Some(4 * SumSeq([k \in SegIds |-> SegValue(k)]))

\* A producer-consumer run that returned with more segments than consumers,
\* two of them taken by different consumers.
C1_Witness ==
  /\ PcMode
  /\ pc = "returned"
  /\ Len(segments) > Len(wst)
  /\ Len(wst) >= 2
  /\ got[1] # got[2]

\* The producer of a producer-consumer run is in its collecting loop.
Collecting ==
  /\ pc \in {"pc_threads", "pc_processes"}
  /\ Len(wst) >= WorkerCount
  /\ nput = Len(segments) + Len(wst)
  /\ ncollected < Len(segments)

\* Consumer c can take no step: it waits on an empty task queue, or is gone.
Idle(c) == (wst[c] = "waiting" /\ tasks = <<>>) \/ wst[c] \in {"exited", "died"}

\* A fault-free run of the backend fn with at least one worker.
CleanRun(fn) ==
  Mode = fn /\ args.iterations # None /\ WorkerCount >= 1 /\ fault = NoFault

\* C4: producer-consumer executor (threads), iterations >= 1 and worker_count
\* >= 1, fair scheduling: the executor eventually returns; the step that
\* returns is taken when the count of collected results is len(segments),
\* whatever the consumers' states; and the producer never waits on an empty
\* result queue while every consumer is blocked or has exited.
C4_ThreadsReturn ==
  /\ [](CleanRun("run_producer_consumer_threads") /\ Collecting /\ results = <<>>
        => \E c \in 1 .. Len(wst) : ~Idle(c))
  /\ [][CleanRun("run_producer_consumer_threads") /\ pc = "pc_threads"
        /\ pc' = "returned" => ncollected = Len(segments)]_vars
  /\ (CleanRun("run_producer_consumer_threads") /\ pc = "main") ~> Returned

\* The threaded executor has returned while a consumer has not yet exited.
C4_Witness ==
  /\ CleanRun("run_producer_consumer_threads")
  /\ pc = "returned"
  /\ Len(segments) > Len(wst)
  /\ \E c \in 1 .. Len(wst) : wst[c] = "waiting"

\* C5: producer-consumer executor (processes): when it returns, all
\* len(segments) results have been collected and every worker process has
\* taken its sentinel, exited and been joined; under fair scheduling the
\* joins complete (the worker being joined is never blocked on an empty task
\* queue) and the executor returns.
C5_ProcessesJoined ==
  /\ [](Mode = "run_producer_consumer_processes" /\ WorkerCount >= 1 /\ Returned
        => /\ ncollected = Len(segments)
           /\ Len(wst) = args.processes
           /\ joined = Len(wst)
           /\ \A w \in 1 .. Len(wst) : wst[w] = "exited")
  /\ [](CleanRun("run_producer_consumer_processes") /\ pc = "pc_processes"
        /\ Collected(args.processes) /\ joined < Len(wst)
        => ~(wst[joined + 1] = "waiting" /\ tasks = <<>>))
  /\ (CleanRun("run_producer_consumer_processes") /\ pc = "main") ~> Returned

\* The process executor has returned from a run of several segments and
\* several workers.
C5_Witness ==
  /\ CleanRun("run_producer_consumer_processes")
  /\ pc = "returned"
  /\ Len(wst) >= 2
  /\ Len(segments) > Len(wst)
  /\ joined = Len(wst)

\* C6: thread pool executor (run_gil_threads), every interleaving: slot i is
\* written only by worker i and at most once; the sum is taken only after
\* every worker has ended; and at that time the slot of every worker that
\* finished (every worker, when none raises) was written exactly once and
\* holds the partial sum of segment i.
C6_Slots ==
  (Mode = "run_gil_threads" /\ Partitioned /\ WorkerCount >= 1)
  => /\ \A k \in 1 .. Len(slots) : produced[k] \in {<<>>, <<k>>}
     /\ \A k \in 1 .. Len(wst) : (wst[k] = "finished") <=> (produced[k] = <<k>>)
     /\ Returned =>
          /\ Len(wst) = Len(slots)
          /\ \A k \in 1 .. Len(slots) :
               /\ Ended(k)
               /\ (fault.kind = "none" => wst[k] = "finished")
               /\ (wst[k] = "finished" => slots[k] = SegValue(k))

\* run_gil_threads has returned from a fault-free run of several workers.
C6_Witness ==
  /\ CleanRun("run_gil_threads")
  /\ pc = "returned"
  /\ Len(wst) >= 2
  /\ \A k \in 1 .. Len(wst) : produced[k] = <<k>>

\* Some worker's evaluation of a segment raised.
WorkerFailed ==
  \/ \E w \in 1 .. Len(wst) : wst[w] = "died"
  \/ (Mode = "run_pool" /\ \E k \in 1 .. Len(slots) : slots[k].state = "raised")

\* The run is blocked for ever: it has not ended and nothing can step.
Stuck == pc \notin {"done", "error"} /\ ~ENABLED Next

\* C7: local backend failure is all-or-nothing: once a worker has raised
\* while evaluating a segment, the executor returns no value (the failure
\* ends the run) and the run does not block for ever.
C7_AllOrNothing == WorkerFailed => (result = None /\ ~Stuck)

\* The first line of the captured output, <<>> when there is none.
FirstLine(output) ==
  IF SplitLines(Strip(output)) = <<>> THEN <<>> ELSE SplitLines(Strip(output))[1]

\* The text after the line's first "~" (up to the next one), stripped, is a
\* float, whatever stands before the "~".
HasFloatAfterApprox(line) ==
  \E i \in 1 .. Len(line) :
    /\ line[i] = APPROX
    /\ \A h \in 1 .. (i - 1) : line[h] # APPROX
    /\ \E j \in (i + 1) .. (Len(line) + 1) :
         /\ j = Len(line) + 1 \/ line[j] = APPROX
         /\ \A h \in (i + 1) .. (j - 1) : line[h] # APPROX
         /\ IsFloatText(Strip(SubSeq(line, i + 1, j - 1)))

\* A failed reply ends the run on the spot: it is the last reply, no later
\* host has been contacted, nothing is returned, nothing is printed.
AbortsAt(k) ==
  /\ k = Len(replies)
  /\ Len(contacted) = k
  /\ pc = "error"
  /\ result = None
  /\ stdout = <<>>

\* 2 hosts and 1000 iterations: [0, 500) and [500, 1000).
ExampleSplit == HostSegments(1000, 2) = <<<<0, 500>>, <<500, 1000>>>>

C9_Sequential ==
  (Mode = "distribute_across_hosts" /\ Partitioned)
  => LET n == Val(args.iterations)
         h == Len(Hosts)
         chunk == n \div h
     IN  /\ Cardinality(outstanding) <= 1
         /\ outstanding \subseteq {Len(contacted)}
         /\ \A k \in 1 .. Len(contacted) :
              /\ contacted[k][1] = Hosts[k]
              /\ contacted[k][2] = (k - 1) * chunk
              /\ contacted[k][3] = (IF k < h THEN k * chunk ELSE n)
              /\ k < Len(contacted) => (counted[k] = 1 /\ Len(replies) >= k)

\* The second host's command is running after the first one's value was added.
C9_Witness ==
  /\ Mode = "distribute_across_hosts"
  /\ Len(contacted) = 2
  /\ outstanding = {2}
  /\ counted[1] = 1
  /\ total # 0

\* C10: a worker count of 0 or below is refused by every backend before any
\* worker is started: no worker exists, no value is returned, and the run
\* does not block.
C10_Refused ==
  (Mode \in {"run_gil_threads", "run_producer_consumer_threads",
             "run_producer_consumer_processes", "run_pool"}
   /\ args.iterations # None /\ WorkerCount <= 0)
  => (wst = <<>> /\ result = None /\ ~Stuck)

\* ---------------------------------------------------------------- teardown

LocalModes ==
  {"run_gil_threads", "run_producer_consumer_threads",
   "run_producer_consumer_processes", "run_pool"}

\* The executor has returned (the report may have been printed) or aborted.
Over == pc \in {"returned", "done", "error"}

\* Worker w is neither running nor blocked on a queue.
WorkerGone(w) == wst[w] \in {"finished", "died", "exited", "terminated"}

\* C11 as stated: once an executor (thread pool, producer-consumer threads,
\* producer-consumer processes, pool) has returned or aborted, none of the
\* workers it created is still running or blocked on a queue.
C11_TornDown_AsStated ==
  (Mode \in LocalModes /\ Over) => \A w \in 1 .. Len(wst) : WorkerGone(w)

\* C11, amended: once the thread pool, producer-consumer processes or pool
\* executor has returned or aborted, none of its workers is still running or
\* blocked on a queue. The producer-consumer threads executor returns once
\* every result is collected, without waiting for its consumers: each of
\* them has then exited or has nothing but its sentinel left to dequeue
\* (the task queue holds exactly one sentinel per consumer still alive).
C11_TornDown ==
  /\ (Mode \in LocalModes \ {"run_producer_consumer_threads"} /\ Over)
     => \A w \in 1 .. Len(wst) : WorkerGone(w)
  /\ (Mode = "run_producer_consumer_threads" /\ Over)
     => /\ ncollected = Len(segments)
        /\ \A c \in 1 .. Len(wst) : wst[c] \in {"waiting", "exited"}
        /\ \A i \in 1 .. Len(tasks) : tasks[i] = None
        /\ Len(tasks) = Cardinality({c \in 1 .. Len(wst) : wst[c] = "waiting"})

\* The threaded run is over, its report printed, and one consumer has not
\* taken its sentinel.
C11_Witness ==
  /\ Mode = "run_producer_consumer_threads"
  /\ pc = "done"
  /\ wst = <<"exited", "waiting">>
  /\ tasks = <<None>>

\* ------------------------------------------------------- mode validation

\* Whether the backend option m was given on the command line.
FlagSet(m) ==
  CASE m = "with_gil" -> args.with_gil
    [] m = "with_thread" -> args.with_thread
    [] m = "with_process" -> args.with_process
    [] m = "pool" -> args.pool # None
    [] m = "hosts" -> args.hosts # <<>>

NumModes == Cardinality({m \in ModeFlags : FlagSet(m)})

\* The run ended in parser.error (or has not started): no partitioning, no
\* worker, no host contacted, no value, nothing printed.
Refused ==
  /\ pc \in {"main", "error"}
  /\ pc = "error" => exc = "SystemExit(2)"
  /\ segments = <<>>
  /\ wst = <<>>
  /\ contacted = <<>>
  /\ result = None
  /\ stdout = <<>>

\* C12: when more than one backend option is given (any two of with-gil,
\* with-thread, with-process, pool, hosts), the run is refused with an
\* argument error before any partitioning, dispatch or evaluation.
C12_ConflictRefused == NumModes >= 2 => Refused

WorkerMode == args.start # None /\ args.end # None

RECURSIVE TermSum(_)
\* The sum of the series terms of index 0 .. n - 1, as a numerator over Den.
TermSum(n) == IF n <= 0 THEN 0 ELSE TermSum(n - 1) + Term(n - 1)

\* C14: for iterations >= 1 and worker_count >= 1, the thread pool, the two
\* producer-consumer executors and the pool executor all return 4 x the sum
\* of the series terms of index 0 .. iterations-1 (no evaluation raising),
\* whatever the order in which results arrive: while the producer collects,
\* its total is the sum of the partial sums of the segments counted so far.
C14_BackendsAgree ==
  (Mode \in LocalModes /\ args.iterations # None /\ WorkerCount >= 1 /\ Partitioned
   /\ ~WorkerFailed)
  => /\ PcMode => total = SumSeq([k \in SegIds |-> counted[k] * SegValue(k)])
     /\ Returned => result = Some(4 * TermSum(Val(args.iterations)))

\* The process executor has returned the series sum of a run in which the
\* second consumer took the first of three segments.
C14_Witness ==
  /\ Mode = "run_producer_consumer_processes"
  /\ pc = "returned"
  /\ Len(segments) = 3
  /\ got[1] = <<2>>
  /\ result = Some(4 * TermSum(Val(args.iterations)))

\* Host k's worker ran and the reply is what it printed.
HostSucceeded(k) ==
  replies[k] = [status |-> 0,
                output |-> run_local_segment(segments[k][1], segments[k][2])]

\* C15: a remote worker reports its partial sum multiplied by 4 and the
\* remote executor adds the reported values without scaling them again: each
\* reply of a worker is read back as 4 x its segment's partial sum, and when
\* every host succeeds distribute_across_hosts returns 4 x the sum of the
\* series terms of index 0 .. iterations-1, the value of a local backend.
C15_RemoteScaling ==
  (Mode = "distribute_across_hosts" /\ Partitioned)
  => /\ \A k \in 1 .. Len(replies) :
          HostSucceeded(k) =>
            ParseOutput(replies[k].output) = [outcome |-> "ok", value |-> 4 * SegValue(k)]
     /\ (Returned /\ \A k \in 1 .. Len(replies) : HostSucceeded(k))
        => result = Some(4 * TermSum(Val(args.iterations)))

\* Two hosts succeeded on a run of at least three iterations and the sum
\* was returned.
C15_Witness ==
  /\ Mode = "distribute_across_hosts"
  /\ pc = "returned"
  /\ Val(args.iterations) >= 3
  /\ Len(replies) = 2
  /\ HostSucceeded(1)
  /\ HostSucceeded(2)
  /\ result # Some(0)

\* C16: invoked with both start and end, whatever backend options are given
\* as well, the program only evaluates the segment [start, end): it prints
\* the single line "pi ~ <4 x the partial sum>" (no Error line, no Time
\* elapsed line), starts no worker, contacts no host, partitions nothing and
\* ends without an error.
C16_WorkerProtocol ==
  WorkerMode
  => LET s == Val(args.start)
         e == Val(args.end)
         partial == IF e > s THEN TermSum(e) - TermSum(s) ELSE 0
     IN  /\ pc \in {"main", "done"}
         /\ exc = ""
         /\ wst = <<>> /\ segments = <<>> /\ tasks = <<>> /\ contacted = <<>>
         /\ result = None
         /\ pc = "main" => stdout = <<>>
         /\ pc = "done" => stdout = <<PI, SP, APPROX, SP, Num(4 * partial), NL>>

\* A worker invocation that also named hosts has printed its line.
C16_Witness ==
  /\ WorkerMode
  /\ args.hosts # <<>>
  /\ Val(args.start) < Val(args.end)
  /\ pc = "done"
  /\ Len(stdout) = 6

\* ---------------------------------------------------------- small inputs

CeilModes ==
  {"run_producer_consumer_threads", "run_producer_consumer_processes", "run_pool"}

\* Segment k was dequeued by a consumer that had dequeued an earlier one.
Reused(k) == got[k] # <<>> /\ \E j \in 1 .. (k - 1) : got[j] = got[k]

\* With more segments than consumers, a consumer dequeues a further segment
\* only after it has answered its previous one, and at the return every
\* segment was processed, at least len(segments) - worker_count of them by a
\* consumer that had finished an earlier segment.
ExcessServed ==
  (PcMode /\ Partitioned /\ WorkerCount >= 1 /\ Len(segments) > WorkerCount)
  => /\ \A k \in SegIds : \A j \in 1 .. (k - 1) :
          (got[k] # <<>> /\ got[j] = got[k]) => produced[j] # <<>>
     /\ Returned =>
          /\ \A k \in SegIds : produced[k] # <<>> /\ counted[k] = 1
          /\ Cardinality({k \in SegIds : Reused(k)}) >= Len(segments) - WorkerCount

\* C17 as stated: with iterations < workers the ceiling-chunk policy yields
\* more segments than workers; and whenever there are more segments than
\* workers the excess segments are all processed, each by a consumer that
\* has finished an earlier segment.
C17_SmallInputs_AsStated ==
  /\ (Mode \in CeilModes /\ Partitioned /\ WorkerCount >= 1
      /\ Val(args.iterations) < WorkerCount)
     => Len(segments) > WorkerCount
  /\ ExcessServed

\* C17, amended: with iterations < workers the ceiling-chunk policy yields
\* exactly `iterations` segments, fewer than workers; it yields more segments
\* than workers exactly when iterations > workers and workers does not divide
\* iterations; and whenever there are more segments than workers every
\* segment is processed, at least len(segments) - worker_count of them by a
\* consumer that has finished an earlier segment.
C17_SmallInputs ==
  /\ (Mode \in CeilModes /\ Partitioned /\ WorkerCount >= 1)
     => LET n == Val(args.iterations)
            w == WorkerCount
        IN  /\ n < w => Len(segments) = n
            /\ Len(segments) > w <=> (n > w /\ n % w # 0)
  /\ ExcessServed

\* Three segments, two consumers: the first consumer took two segments, the
\* second one the last, and the executor returned.
C17_Witness ==
  /\ PcMode
  /\ pc = "returned"
  /\ WorkerCount = 2
  /\ got = <<(<<1>>), (<<1>>), (<<2>>)>>

\* --------------------------------------------------------------- sentinels

\* C18: in the producer-consumer executors every segment is enqueued before
\* any sentinel on a FIFO task queue: in the queue no segment stands behind a
\* sentinel, and a consumer dequeues a sentinel (and exits) only when no
\* segment is left in the queue, so that once a consumer has exited every
\* segment has been enqueued and claimed by some consumer.
C18_SentinelOrder ==
  (PcMode /\ Partitioned)
  => /\ \A i, j \in 1 .. Len(tasks) : (i < j /\ tasks[i] = None) => tasks[j] = None
     /\ (\E c \in 1 .. Len(wst) : wst[c] = "exited")
        => /\ nput > Len(segments)
           /\ \A i \in 1 .. Len(tasks) : tasks[i] = None
           /\ \A k \in SegIds : got[k] # <<>>

\* One consumer has exited on its sentinel while the other still holds a
\* segment; only a sentinel is left in the queue.
C18_Witness ==
  /\ PcMode
  /\ Len(segments) >= 2
  /\ \E c \in 1 .. Len(wst) : wst[c] = "exited"
  /\ \E c \in 1 .. Len(wst) : wst[c] = "holding"
  /\ tasks = <<None>>

\* The segments and the sentinels in the task queue.
TaskSegs == Cardinality({i \in 1 .. Len(tasks) : tasks[i] # None})

TaskSentinels == Cardinality({i \in 1 .. Len(tasks) : tasks[i] = None})

\* The sentinels the producer has enqueued so far.
SentinelsPut == IF nput > Len(segments) THEN nput - Len(segments) ELSE 0

\* The consumers that stopped on a sentinel.
Stopped == {c \in 1 .. Len(wst) : wst[c] = "exited"}

\* The consumers holding a segment they dequeued and have not answered.
Holders == {c \in 1 .. Len(wst) : wseg[c] # <<>>}

AllStopped == Len(wst) = WorkerCount /\ Stopped = 1 .. Len(wst)

\* The part of the sentinel accounting that does not speak of the result
\* queue once the consumers have stopped: at most worker_count sentinels are
\* enqueued, exactly worker_count once the producer collects; the sentinels
\* enqueued are those still queued plus one per stopped consumer; and
\* (segments in the task queue) + (segments held by consumers) + (values in
\* the result queue) + (results collected) = the segments enqueued,
\* len(segments) once all are.
SentinelBalance ==
  /\ SentinelsPut <= WorkerCount
  /\ (ncollected >= 1 \/ Returned) => SentinelsPut = WorkerCount
  /\ TaskSentinels + Cardinality(Stopped) = SentinelsPut
  /\ TaskSegs + Cardinality(Holders) + Len(results) + ncollected
       = Min(nput, Len(segments))

\* C19 as stated: sentinel accounting in the producer-consumer executors
\* (worker_count >= 1), with: once all consumers have stopped the task queue
\* is empty and the result queue holds no uncollected result.
C19_Accounting_AsStated ==
  (PcMode /\ Partitioned /\ WorkerCount >= 1)
  => /\ SentinelBalance
     /\ AllStopped => (tasks = <<>> /\ results = <<>>)

\* C19, amended: sentinel accounting in the producer-consumer executors
\* (worker_count >= 1): exactly worker_count sentinels are enqueued, every
\* consumer that stops has dequeued exactly one sentinel and dequeues
\* nothing further, the segment balance holds, and once all consumers have
\* stopped the task queue is empty and every segment's result is in the
\* result queue or already collected (the producer may not have collected
\* them yet).
C19_Accounting ==
  (PcMode /\ Partitioned /\ WorkerCount >= 1)
  => /\ SentinelBalance
     /\ AllStopped => (tasks = <<>> /\ Len(results) + ncollected = Len(segments))

\* Both consumers have stopped while the producer is still collecting: a
\* result waits in the result queue.
C19_Witness ==
  /\ PcMode
  /\ pc \in {"pc_threads", "pc_processes"}
  /\ Len(wst) = 2
  /\ AllStopped
  /\ tasks = <<>>
  /\ ncollected >= 1
  /\ results # <<>>

\* ------------------------------------------------------------ hung worker

\* The evaluation of one of the run's segments hangs for ever.
HangFault == fault.kind = "hang" /\ fault.seg \in SegIds

\* A worker holds the segment whose evaluation hangs.
Hung ==
  /\ HangFault
  /\ IF Mode = "run_gil_threads"
       THEN fault.seg <= Len(wst) /\ wst[fault.seg] = "running"
       ELSE \E c \in 1 .. Len(wst) :
              wst[c] = "holding" /\ SegIndex(wseg[c]) = fault.seg

\* C20: in the thread pool and the producer-consumer executors, when the
\* evaluation of a segment hangs for ever the executor never returns: in no
\* reachable state of such a run has the executor returned or ended, with or
\* without that segment's result, and while the worker hangs no value has
\* been returned; the segment's result is never produced.
C20_NoTimeout ==
  (Mode \in {"run_gil_threads", "run_producer_consumer_threads",
             "run_producer_consumer_processes"} /\ Partitioned /\ HangFault)
  => /\ ~Over
     /\ result = None
     /\ IF Mode = "run_gil_threads"
          THEN slots[fault.seg] = 0 /\ produced[fault.seg] = <<>>
          ELSE produced[fault.seg] = <<>> /\ counted[fault.seg] = 0

\* A consumer hangs on its segment; the other consumer has exited, every
\* other result is collected, and nothing can step any more.
C20_Witness ==
  /\ Mode = "run_producer_consumer_threads"
  /\ Hung
  /\ Len(segments) >= 2
  /\ ncollected = Len(segments) - 1
  /\ \E c \in 1 .. Len(wst) : wst[c] = "exited"
  /\ Stuck

====
